---- MODULE Spec2Model ----
(***************************************************************************)
(* Model of the paramic tone generator: the parametric equation            *)
(* (src/src/parametric_equation.rs), the phase-accumulating oscillators    *)
(* (src/src/oscillators.rs) and the plugin's reset / initialize / process  *)
(* handlers with their note-tracking state machine (src/src/lib.rs).       *)
(*                                                                         *)
(* Numbers.  The program computes in f32/f64.  The model computes in       *)
(* fixed point: a real value v is the integer v * Unit (Unit = 10^4),      *)
(* except sample rates, which are whole Hz, and the result of get_period,  *)
(* which the code produces from an integer loop index.  Products are       *)
(* rescaled with truncation toward zero.  Values that are exact in binary  *)
(* floating point and in the fixed-point grid (0.25, 0.5, 1.0, ...) are    *)
(* therefore exact in the model; sin/cos are polynomial approximations     *)
(* with an absolute error below 3 * 10^-4.                                 *)
(***************************************************************************)
EXTENDS Integers, Sequences, FiniteSets, TLC

VARIABLES
    \* ---- parametric equation under test (pure-function specification)
    eq,             \* the EquationA value get_period is applied to
    eq_period,      \* << >> before the call, << get_period(eq) >> after it
    \* ---- stand-alone oscillators (oscillator specification)
    sine,           \* SineOscillator   {sample_rate, phase, frequency}
    square,         \* SquareOscillator {sample_rate, phase, frequency}
    osc_out,        \* [variant under test, last value returned by sample()]
    calls,          \* number of sample() calls made so far (bounded)
    \* ---- the plugin (Paramic)
    sample_rate,    \* Paramic::sample_rate
    oscillator,     \* Paramic::oscillator : ParametricOscillatorA
    midi_note_id,   \* Paramic::midi_note_id
    midi_note_freq, \* Paramic::midi_note_freq
    midi_note_gain, \* Paramic::midi_note_gain : Smoother (linear, 5 ms)
    params,         \* ParamicParams: plain values and the two parameter smoothers
    \* ---- one process() call in flight
    pc,             \* "idle" | "sample" | "drain"
    channels,       \* output channels of the audio layout in use
    block_len,      \* number of samples of the buffer being rendered
    sample_id,      \* loop index of the for loop
    delivered,      \* events the host context has handed out so far (bounded)
    next_event,     \* the local next_event : Option<NoteEvent>
    gain,           \* the local gain of the current sample
    buffer,         \* rows written to the output buffer, one per sample
    \* ---- history (not program state)
    last,           \* what the most recent step did, with the state before it
    last_note_on,   \* << >>, or << note of the last NoteOn since construction / reset >>
    budget,         \* samples the host has asked for so far (bounded)
    hist,           \* this block: events handed out and events matched; and
                    \* whether no event was matched since construction / reset
    ramp,           \* the envelope since its last set_target / reset: the value
                    \* before, the target, the steps and the values returned
    \* ---- the environment
    host_notes      \* the note numbers the host's events carry

vars == << eq, eq_period, sine, square, osc_out, calls,
           sample_rate, oscillator, midi_note_id, midi_note_freq,
           midi_note_gain, params, pc, channels, block_len, sample_id, delivered,
           next_event, gain, buffer, last, last_note_on, budget, hist, ramp,
           host_notes >>

eqVars     == << eq, eq_period >>
oscVars    == << sine, square, osc_out, calls >>
pluginVars == << sample_rate, midi_note_id, midi_note_freq,
                 midi_note_gain, params, pc, channels, block_len, sample_id, delivered,
                 next_event, gain, buffer, last, last_note_on, budget, hist, ramp,
                 host_notes >>

(***************************************************************************)
(* Fixed-point arithmetic                                                  *)
(***************************************************************************)
Unit == 10 * 1000

Abs(x) == IF x < 0 THEN -x ELSE x

\* Integer division truncating toward zero (the rounding direction of the
\* rescaling does not depend on the sign of the operand).
TDiv(x, y) == IF x >= 0 THEN x \div y ELSE -((-x) \div y)

\* Fixed-point product.
Mul(x, y) == TDiv(x * y, Unit)

TwoPiFix  == 62832
PiFix     == TwoPiFix \div 2
HalfPiFix == TwoPiFix \div 4

\* Angle reduction into [0, 2*pi): the turns are removed with 2*pi taken as
\* 6.2831853 so that large angles keep their precision.
ReduceAngle(A) ==
    LET k == A \div TwoPiFix
        r == A - k * 62831 - ((k * 853) \div 1000)
    IN  IF r >= TwoPiFix THEN r - TwoPiFix ELSE r

\* sin and cos on [0, pi/2] by their Taylor polynomials in Horner form.
SinQ(x) ==
    LET x2 == Mul(x, x)
        t4 == Unit - (x2 \div 72)
        t3 == Unit - (Mul(x2, t4) \div 42)
        t2 == Unit - (Mul(x2, t3) \div 20)
        t1 == Unit - (Mul(x2, t2) \div 6)
    IN  Mul(x, t1)

CosQ(x) ==
    LET x2 == Mul(x, x)
        t5 == Unit - (x2 \div 90)
        t4 == Unit - (Mul(x2, t5) \div 56)
        t3 == Unit - (Mul(x2, t4) \div 30)
        t2 == Unit - (Mul(x2, t3) \div 12)
    IN  Unit - (Mul(x2, t2) \div 2)

\* f64::sin and f64::cos of a non-negative fixed-point angle.
Sin(A) ==
    LET r == ReduceAngle(A)
    IN  IF r <= HalfPiFix THEN SinQ(r)
        ELSE IF r <= PiFix THEN SinQ(PiFix - r)
        ELSE IF r <= PiFix + HalfPiFix THEN -SinQ(r - PiFix)
        ELSE -SinQ(TwoPiFix - r)

Cos(A) ==
    LET r == ReduceAngle(A)
    IN  IF r <= HalfPiFix THEN CosQ(r)
        ELSE IF r <= PiFix THEN -CosQ(PiFix - r)
        ELSE IF r <= PiFix + HalfPiFix THEN -CosQ(r - PiFix)
        ELSE CosQ(TwoPiFix - r)

\* f64::powi(n) for n >= 0: repeated multiplication.
RECURSIVE Powi(_, _)
Powi(v, n) == IF n = 0 THEN Unit ELSE Mul(Powi(v, n - 1), v)

\* f64::sqrt of a non-negative integer n: the largest r with r * r <= n.
RECURSIVE SqrtSearch(_, _, _)
SqrtSearch(n, lo, hi) ==
    IF lo >= hi THEN lo
    ELSE LET mid == (lo + hi + 1) \div 2
         IN  IF mid * mid <= n THEN SqrtSearch(n, mid, hi)
             ELSE SqrtSearch(n, lo, mid - 1)

Sqrt(n) == SqrtSearch(n, 0, 4 * Unit)

RECURSIVE Gcd(_, _)
Gcd(m, n) == IF n = 0 THEN m ELSE Gcd(n, m % n)

(***************************************************************************)
(* Parametric equation (src/src/parametric_equation.rs)                    *)
(***************************************************************************)
\* Bound of the model: shape coefficients are drawn from 1..MaxCoef (the
\* program allows 1..100), together with the default value of b.
MaxCoef == 3

\* Defaults of the six shape parameters (ParamicParams::default).
DefaultA == 1
DefaultB == 7
DefaultC == 1
DefaultD == 7
DefaultJ == 3
DefaultK == 3

DefaultEquation ==
    [a |-> DefaultA, b |-> DefaultB, c |-> DefaultC,
     d |-> DefaultD, j |-> DefaultJ, k |-> DefaultK]

\* EquationA::get_position(t): t is a fixed-point value, the result a pair
\* of fixed-point values.
get_position(e, t) ==
    LET x == Cos(t * e.a) - Powi(Cos(t * e.b), e.j)
        y == Sin(t * e.c) - Powi(Sin(t * e.d), e.k)
    IN  << x, y >>

\* The search limit and the fallback of get_period.
PeriodSearchEnd == 1000

\* The test of the loop body of get_period at the integer i.
PeriodFound(e, i) ==
    LET p == get_position(e, i * Unit)
    IN  p[1] > 0 /\ p[2] > 0

\* The first i in lo..hi with PeriodFound(e, i), else PeriodSearchEnd.  The
\* range is halved instead of walked so that the evaluation stays shallow;
\* the candidates are still tried in increasing order.
RECURSIVE PeriodSearch(_, _, _)
PeriodSearch(e, lo, hi) ==
    IF lo = hi
    THEN IF PeriodFound(e, lo) THEN lo ELSE PeriodSearchEnd
    ELSE LET mid   == (lo + hi) \div 2
             first == PeriodSearch(e, lo, mid)
         IN  IF first # PeriodSearchEnd THEN first
             ELSE PeriodSearch(e, mid + 1, hi)

\* EquationA::get_period: the first integer i in 1..999 whose position has
\* x > 0 and y > 0, else 1000.  The result is the integer i (not scaled).
get_period(e) == PeriodSearch(e, 1, PeriodSearchEnd - 1)

\* The closed form the design documents name: 2*pi / gcd(gcd(a,b), gcd(c,d)),
\* as a fixed-point value.
ClosedFormPeriod(e) == TwoPiFix \div Gcd(Gcd(e.a, e.b), Gcd(e.c, e.d))

Coefs == 1 .. MaxCoef

Equations ==
    [a : Coefs, b : Coefs \cup {DefaultB}, c : Coefs, d : Coefs,
     j : Coefs, k : Coefs]

(***************************************************************************)
(* Oscillators (src/src/oscillators.rs)                                    *)
(*                                                                         *)
(* phase and frequency are fixed-point values, sample_rate is whole Hz.    *)
(***************************************************************************)
\* The frequency every constructor stores.
InitialFrequency == 440

\* An alternative shape with get_period = 2 (the default shape has 1).
AltEquation == [a |-> 1, b |-> 2, c |-> 1, d |-> 2, j |-> 1, k |-> 1]

\* Shapes the parameter layer hands to the oscillator in the model.
Shapes == {DefaultEquation, AltEquation}

\* Bound of the model: sample() calls of the stand-alone oscillators.
MaxCalls == 4

\* Sample rates and frequencies given to the stand-alone oscillators: the
\* placeholder rate 1.0 of Paramic::default, and rates for which the phase
\* increments 0.25, 0.001 and 0.44 are exact.
OscSampleRates == {1, 4, 1000}
OscFrequencies == {1 * Unit, InitialFrequency * Unit}

\* self.phase += self.frequency / self.sample_rate
Advance(o) == o.phase + (o.frequency \div o.sample_rate)

\* if self.phase > width { self.phase -= width }
Wrap(phase, width) == IF phase > width THEN phase - width ELSE phase

\* SineOscillator::new / SquareOscillator::new
SimpleNew(sr) ==
    [sample_rate |-> sr, phase |-> 0, frequency |-> InitialFrequency * Unit]

\* ParametricOscillatorA::new
ParametricNew(sr, e) ==
    [sample_rate |-> sr, phase |-> 0, frequency |-> InitialFrequency * Unit,
     period |-> get_period(e), equation |-> e]

\* set_sample_rate and set_frequency, the same for the three variants.
set_sample_rate(o, sr) == [o EXCEPT !.sample_rate = sr]
set_frequency(o, f)    == [o EXCEPT !.frequency = f]

\* set_equation restarting the curve: the phase is reset to 0.
set_equation_reset_phase(o, e) == [o EXCEPT !.equation = e, !.phase = 0]

\* ParametricOscillatorA::set_equation
set_equation(o, e) == [o EXCEPT !.equation = e]

\* SineOscillator::sample returning the value at the phase before the step.
SineSampleOfStale(o) ==
    LET ph == Wrap(Advance(o), Unit)
    IN  [osc |-> [o EXCEPT !.phase = ph],
         out |-> Sin(Mul(o.phase % Unit, TwoPiFix))]

\* SineOscillator::sample: the oscillator after the call and the value
\* returned.  sin(phase * TAU) is taken on the fractional part of the phase,
\* which has the same sine.
SineSampleOf(o) ==
    LET ph == Wrap(Advance(o), Unit)
    IN  [osc |-> [o EXCEPT !.phase = ph],
         out |-> Sin(Mul(ph % Unit, TwoPiFix))]

\* SquareOscillator::sample with the comparison phase <= 0.5.
SquareSampleOfLe(o) ==
    LET ph == Wrap(Advance(o), Unit)
    IN  [osc |-> [o EXCEPT !.phase = ph],
         out |-> IF ph <= Unit \div 2 THEN Unit ELSE -Unit]

\* SquareOscillator::sample
SquareSampleOf(o) ==
    LET ph == Wrap(Advance(o), Unit)
    IN  [osc |-> [o EXCEPT !.phase = ph],
         out |-> IF ph < Unit \div 2 THEN Unit ELSE -Unit]

\* ParametricOscillatorA::sample
ParametricSampleOf(o) ==
    LET ph == Wrap(Advance(o), o.period * Unit)
        p  == get_position(o.equation, ph)
    IN  [osc |-> [o EXCEPT !.phase = ph],
         out |-> Sqrt(p[1] * p[1] + p[2] * p[2]) - Unit]

\* The oscillator a run of the oscillator specification exercises.
Variants == {"sine", "square", "parametric"}

NoOutput(v) == [variant |-> v, out |-> 0]

(***************************************************************************)
(* Smoother (nih_plug::Smoother<f32> with SmoothingStyle::Linear), as the  *)
(* plugin uses it for the note-gain envelope and the two parameters.       *)
(***************************************************************************)
\* Ramp durations in milliseconds.
NoteGainMs  == 5
GainMs      == 3
FrequencyMs == 10

\* Linear(ms).num_steps(sample_rate) = round(sample_rate * ms / 1000)
NumSteps(sr, ms) == (sr * ms + 500) \div 1000

\* Smoother::new
SmootherNew == [current |-> 0, target |-> 0, steps_left |-> 0, step_size |-> 0]

\* Smoother::set_target(sample_rate, target)
SmootherSetTarget(s, sr, ms, target) ==
    LET n == NumSteps(sr, ms)
    IN  [current   |-> s.current,
         target    |-> target,
         steps_left |-> n,
         step_size |-> IF n > 0 THEN TDiv(target - s.current, n) ELSE 0]

\* Smoother::next: the smoother after the call and the value returned.
SmootherNext(s) ==
    IF s.steps_left > 0
    THEN LET new == IF s.steps_left <= 1 THEN s.target
                    ELSE s.current + s.step_size
         IN  [s   |-> [s EXCEPT !.current = new, !.steps_left = @ - 1],
              out |-> new]
    ELSE [s |-> s, out |-> s.target]

\* Smoother::reset(value)
SmootherReset(s, v) == [s EXCEPT !.current = v, !.target = v, !.steps_left = 0]

(***************************************************************************)
(* nih_plug::util                                                          *)
(***************************************************************************)
\* 2^(s/12) for s = 0..11, fixed point.
SemitoneRatio ==
    << 10000, 10595, 11225, 11892, 12599, 13348,
       14142, 14983, 15874, 16818, 17818, 18877 >>

RECURSIVE Pow2(_)
Pow2(n) == IF n = 0 THEN 1 ELSE 2 * Pow2(n - 1)

\* util::midi_note_to_freq(note) = 440 * 2^((note - 69) / 12)
midi_note_to_freq(note) ==
    LET s   == (note + 3) % 12            \* (note - 69) mod 12
        oct == ((note + 3) \div 12) - 6   \* floor((note - 69) / 12)
        f   == 440 * SemitoneRatio[s + 1]
    IN  IF oct >= 0 THEN f * Pow2(oct) ELSE f \div Pow2(-oct)

\* exp(-z) for a fixed-point z >= 0: (exp(-z/8))^8 with the Taylor
\* polynomial of degree 5 for the inner exponential.
ExpNeg(z) ==
    LET w  == z \div 8
        t5 == Unit - (w \div 5)
        t4 == Unit - (Mul(w, t5) \div 4)
        t3 == Unit - (Mul(w, t4) \div 3)
        t2 == Unit - (Mul(w, t3) \div 2)
        e1 == Unit - Mul(w, t2)
        e2 == Mul(e1, e1)
        e4 == Mul(e2, e2)
    IN  Mul(e4, e4)

\* util::db_to_gain_fast(dbs) = exp(dbs * ln(10) / 20), for dbs <= 0.
db_to_gain_fast(dbs) == ExpNeg(Mul(-dbs, 1151))

(***************************************************************************)
(* The plugin (src/src/lib.rs)                                             *)
(***************************************************************************)
\* Paramic::default: the placeholder sample rate.
PlaceholderRate == 1

\* ParamicParams::default: gain in dB and frequency in Hz.
DefaultGainDb    == -20
DefaultFrequency == 420

\* Bounds of the model.
MaxSamples == 3      \* samples the host asks for, over all process() calls
MaxEvents  == 2      \* events the host hands out, over all process() calls

\* Inputs of the model.
HostSampleRates == {400}
Notes           == {0, 60, 61}
Velocities      == {8000}                        \* NoteOn velocity 0.8
Pressures       == {5000}                        \* PolyPressure 0.5
GainChoices     == {DefaultGainDb * Unit, 0}
FrequencyChoices == {DefaultFrequency * Unit, InitialFrequency * Unit}
ChannelCounts   == {2}                           \* the stereo layout
DefaultChannels == 2                             \* the first layout

NoEvent == [kind |-> "None", note |-> 0, value |-> 0, timing |-> 0]

\* NoteEvent values with sample offset t.
EventsAt(t) ==
    [kind : {"NoteOn"}, note : host_notes, value : Velocities, timing : {t}]
    \cup [kind : {"PolyPressure"}, note : host_notes, value : Pressures, timing : {t}]
    \cup [kind : {"NoteOff"}, note : host_notes, value : {0}, timing : {t}]
    \cup [kind : {"MidiCC"}, note : {0}, value : {0}, timing : {t}]

\* ProcessContext::next_event: the host hands out its events in time order,
\* with offsets inside the buffer, and None when it has no more.
ContextNextEvent(from, len, given) ==
    {NoEvent} \cup
    IF given < MaxEvents
    THEN UNION {EventsAt(t) : t \in from .. len - 1}
    ELSE {}

\* Paramic::default
DefaultParams ==
    [gain |-> DefaultGainDb * Unit, frequency |-> DefaultFrequency * Unit,
     use_midi |-> FALSE, shape |-> DefaultEquation,
     gain_smoothed |-> SmootherNew, frequency_smoothed |-> SmootherNew]

\* Nothing handed out or matched in this block, no event since reset.
Quiet == [handed |-> 0, applied |-> 0, quiet |-> TRUE]

\* The envelope at rest: no ramp was started.
NoRamp == [from |-> 0, target |-> 0, steps |-> 0, outs |-> << >>, sets |-> 0]

Idle == [op |-> "none", ev |-> NoEvent, id |-> 0, freq |-> 0, target |-> 0,
         sample |-> 0]

PluginInit ==
    /\ sample_rate = PlaceholderRate
    /\ oscillator = ParametricNew(PlaceholderRate, DefaultEquation)
    /\ midi_note_id = 0
    /\ midi_note_freq = Unit
    /\ midi_note_gain = SmootherNew
    /\ params = DefaultParams
    /\ pc = "idle"
    /\ channels = DefaultChannels
    /\ block_len = 0
    /\ sample_id = 0
    /\ delivered = 0
    /\ next_event = NoEvent
    /\ gain = 0
    /\ buffer = << >>
    /\ last = Idle
    /\ last_note_on = << >>
    /\ budget = 0
    /\ hist = Quiet
    /\ ramp = NoRamp
    /\ host_notes = Notes

\* An event was matched by the step before this one: the event, the note
\* state before it and the sample being rendered.
Did(op, ev) ==
    [op |-> op, ev |-> ev, id |-> midi_note_id, freq |-> midi_note_freq,
     target |-> midi_note_gain.target, sample |-> sample_id]

processVars == << pc, block_len, sample_id, delivered, next_event, gain, buffer, budget >>
noteVars    == << midi_note_id, midi_note_freq, midi_note_gain >>

\* Plugin::initialize storing the sample rate in the plugin only: the
\* oscillator keeps the rate it had.
InitializeAtPluginOnly(rates) ==
    /\ pc = "idle"
    /\ channels' \in ChannelCounts
    /\ sample_rate' \in rates
    /\ params' = [params EXCEPT
                    !.gain_smoothed = SmootherReset(@, params.gain),
                    !.frequency_smoothed = SmootherReset(@, params.frequency)]
    /\ last' = Idle
    /\ UNCHANGED hist
    /\ UNCHANGED << oscillator, noteVars, processVars, last_note_on >>

\* Plugin::initialize, with the audio layout and the sample rate the host
\* chose.  The framework resets every parameter smoother to the parameter's
\* value before it calls the plugin.
InitializeAt(rates) ==
    /\ pc = "idle"
    /\ channels' \in ChannelCounts
    /\ \E sr \in rates :
        /\ sample_rate' = sr
        /\ oscillator' = set_sample_rate(oscillator, sr)
    /\ params' = [params EXCEPT
                    !.gain_smoothed = SmootherReset(@, params.gain),
                    !.frequency_smoothed = SmootherReset(@, params.frequency)]
    /\ last' = Idle
    /\ UNCHANGED hist
    /\ UNCHANGED << noteVars, processVars, last_note_on >>

Initialize == InitializeAt(HostSampleRates)

\* Plugin::reset without the reset of the envelope.
ResetKeepsEnvelope ==
    /\ pc = "idle"
    /\ midi_note_id' = 0
    /\ midi_note_freq' = Unit
    /\ last' = Idle
    /\ last_note_on' = << >>
    /\ hist' = [hist EXCEPT !.quiet = TRUE]
    /\ UNCHANGED << sample_rate, oscillator, params, processVars, channels,
                    midi_note_gain >>

\* Plugin::reset
Reset ==
    /\ pc = "idle"
    /\ midi_note_id' = 0
    /\ midi_note_freq' = Unit
    /\ midi_note_gain' = SmootherReset(midi_note_gain, 0)
    /\ last' = Idle
    /\ last_note_on' = << >>
    /\ hist' = [hist EXCEPT !.quiet = TRUE]
    /\ UNCHANGED << sample_rate, oscillator, params, processVars, channels >>

\* The host changes a parameter between two process() calls; a smoothed
\* parameter starts ramping to the new value once a sample rate is known.
SetUseMidi ==
    /\ pc = "idle"
    /\ \E b \in BOOLEAN : params' = [params EXCEPT !.use_midi = b]
    /\ last' = Idle
    /\ UNCHANGED hist
    /\ UNCHANGED << sample_rate, oscillator, noteVars, processVars, last_note_on,
                    channels >>

SetShape ==
    /\ pc = "idle"
    /\ \E e \in Shapes : params' = [params EXCEPT !.shape = e]
    /\ last' = Idle
    /\ UNCHANGED hist
    /\ UNCHANGED << sample_rate, oscillator, noteVars, processVars, last_note_on,
                    channels >>

SetGain ==
    /\ pc = "idle"
    /\ \E g \in GainChoices :
        params' = [params EXCEPT
                     !.gain = g,
                     !.gain_smoothed =
                        IF sample_rate = PlaceholderRate THEN @
                        ELSE SmootherSetTarget(@, sample_rate, GainMs, g)]
    /\ last' = Idle
    /\ UNCHANGED hist
    /\ UNCHANGED << sample_rate, oscillator, noteVars, processVars, last_note_on,
                    channels >>

SetFrequency ==
    /\ pc = "idle"
    /\ \E f \in FrequencyChoices :
        params' = [params EXCEPT
                     !.frequency = f,
                     !.frequency_smoothed =
                        IF sample_rate = PlaceholderRate THEN @
                        ELSE SmootherSetTarget(@, sample_rate, FrequencyMs, f)]
    /\ last' = Idle
    /\ UNCHANGED hist
    /\ UNCHANGED << sample_rate, oscillator, noteVars, processVars, last_note_on,
                    channels >>

\* Paramic::calculate_sample(frequency): set_frequency, then sample.
calculate_sample(o, frequency) == ParametricSampleOf(set_frequency(o, frequency))

\* The row with the second channel in opposite polarity.
RowInverted(wave, g) ==
    [ch \in 1 .. channels |->
        IF ch = 1 THEN Mul(wave, db_to_gain_fast(g))
        ELSE -Mul(wave, db_to_gain_fast(g))]

\* The row written for one sample: the same value in every channel.
Row(wave, g) == [ch \in 1 .. channels |-> Mul(wave, db_to_gain_fast(g))]

\* The event loop without its timing test: every queued event is taken at
\* once (block-quantized timing).
DueAtOnce(ev, s) == ev.kind # "None"

\* The event loop with an exclusive bound: an event is taken only once the
\* sample index has passed its offset.
DueExclusive(ev, s) == ev.kind # "None" /\ ev.timing < s

\* The guard of the event loop: the loop stops at an event that is not yet
\* due (event.timing() > sample_id) and when there is no event.
Due(ev, s) == ev.kind # "None" /\ ~(ev.timing > s)

\* The NoteOn arm with first-note priority: a sounding note is not replaced.
NoteOnArmFirstNote(ev) ==
    IF last_note_on = << >>
    THEN /\ midi_note_id' = ev.note
         /\ midi_note_freq' = midi_note_to_freq(ev.note)
         /\ midi_note_gain' =
               SmootherSetTarget(midi_note_gain, sample_rate, NoteGainMs, ev.value)
    ELSE UNCHANGED << midi_note_id, midi_note_freq, midi_note_gain >>

\* The NoteOn arm without the frequency update.
NoteOnArmKeepsFreq(ev) ==
    /\ midi_note_id' = ev.note
    /\ midi_note_gain' =
          SmootherSetTarget(midi_note_gain, sample_rate, NoteGainMs, ev.value)
    /\ UNCHANGED midi_note_freq

\* The match arms of the event loop: the note state after `ev`.
NoteOnArm(ev) ==
    /\ midi_note_id' = ev.note
    /\ midi_note_freq' = midi_note_to_freq(ev.note)
    /\ midi_note_gain' =
          SmootherSetTarget(midi_note_gain, sample_rate, NoteGainMs, ev.value)

\* The NoteOff arm without its guard: any NoteOff releases the note.
NoteOffArmUnguarded(ev) ==
    /\ midi_note_gain' =
          SmootherSetTarget(midi_note_gain, sample_rate, NoteGainMs, 0)
    /\ UNCHANGED << midi_note_id, midi_note_freq >>

\* The NoteOff arm returning the machine to the idle note state.
NoteOffArmToIdle(ev) ==
    IF ev.note = midi_note_id
    THEN /\ midi_note_gain' =
               SmootherSetTarget(midi_note_gain, sample_rate, NoteGainMs, 0)
         /\ midi_note_id' = 0
         /\ midi_note_freq' = Unit
    ELSE UNCHANGED << midi_note_id, midi_note_freq, midi_note_gain >>

NoteOffArm(ev) ==
    /\ midi_note_gain' =
          IF ev.note = midi_note_id
          THEN SmootherSetTarget(midi_note_gain, sample_rate, NoteGainMs, 0)
          ELSE midi_note_gain
    /\ UNCHANGED << midi_note_id, midi_note_freq >>

\* The PolyPressure arm without its guard.
PolyPressureArmUnguarded(ev) ==
    /\ midi_note_gain' =
          SmootherSetTarget(midi_note_gain, sample_rate, NoteGainMs, ev.value)
    /\ UNCHANGED << midi_note_id, midi_note_freq >>

PolyPressureArm(ev) ==
    /\ midi_note_gain' =
          IF ev.note = midi_note_id
          THEN SmootherSetTarget(midi_note_gain, sample_rate, NoteGainMs, ev.value)
          ELSE midi_note_gain
    /\ UNCHANGED << midi_note_id, midi_note_freq >>

\* Plugin::process, entry: the first event is fetched, the shape parameters
\* are handed to the oscillator, and the sample loop starts.
ProcessBegin ==
    /\ pc = "idle"
    /\ \E len \in 1 .. MaxSamples - budget :
        /\ block_len' = len
        /\ budget' = budget + len
        /\ next_event' \in ContextNextEvent(0, len, delivered)
    /\ delivered' = IF next_event' = NoEvent THEN delivered ELSE delivered + 1
    /\ hist' = [hist EXCEPT !.handed = IF next_event' = NoEvent THEN 0 ELSE 1,
                            !.applied = 0]
    /\ oscillator' = set_equation(oscillator, params.shape)
    /\ sample_id' = 0
    /\ buffer' = << >>
    /\ gain' = 0
    /\ pc' = "sample"
    /\ last' = Idle
    /\ UNCHANGED << sample_rate, noteVars, params, last_note_on, channels >>

\* The iteration in parameter mode with the envelope applied as in
\* note-driven mode.
RenderParamSampleEnveloped ==
    /\ pc = "sample"
    /\ sample_id < block_len
    /\ ~params.use_midi
    /\ LET g == SmootherNext(params.gain_smoothed)
           f == SmootherNext(params.frequency_smoothed)
           w == calculate_sample(oscillator, f.out)
           e == SmootherNext(midi_note_gain)
       IN  /\ params' = [params EXCEPT !.gain_smoothed = g.s,
                                       !.frequency_smoothed = f.s]
           /\ gain' = g.out
           /\ oscillator' = w.osc
           /\ midi_note_gain' = e.s
           /\ buffer' = Append(buffer, Row(Mul(w.out, e.out), g.out))
    /\ sample_id' = sample_id + 1
    /\ last' = Idle
    /\ UNCHANGED hist
    /\ UNCHANGED << sample_rate, midi_note_id, midi_note_freq, pc, channels,
                    block_len, delivered, next_event, budget, last_note_on >>

\* One iteration of the sample loop in parameter mode.
RenderParamSample ==
    /\ pc = "sample"
    /\ sample_id < block_len
    /\ ~params.use_midi
    /\ LET g == SmootherNext(params.gain_smoothed)
           f == SmootherNext(params.frequency_smoothed)
           w == calculate_sample(oscillator, f.out)
       IN  /\ params' = [params EXCEPT !.gain_smoothed = g.s,
                                       !.frequency_smoothed = f.s]
           /\ gain' = g.out
           /\ oscillator' = w.osc
           /\ buffer' = Append(buffer, Row(w.out, g.out))
    /\ sample_id' = sample_id + 1
    /\ last' = Idle
    /\ UNCHANGED hist
    /\ UNCHANGED << sample_rate, noteVars, pc, channels, block_len, delivered,
                    next_event, budget, last_note_on >>

\* One iteration of the sample loop in note-driven mode, up to the event
\* loop: the gain smoother is advanced.
BeginMidiSample ==
    /\ pc = "sample"
    /\ sample_id < block_len
    /\ params.use_midi
    /\ LET g == SmootherNext(params.gain_smoothed)
       IN  /\ params' = [params EXCEPT !.gain_smoothed = g.s]
           /\ gain' = g.out
    /\ pc' = "drain"
    /\ last' = Idle
    /\ UNCHANGED hist
    /\ UNCHANGED << sample_rate, oscillator, noteVars, channels, block_len,
                    sample_id, delivered, next_event, buffer, budget,
                    last_note_on >>

\* The iteration of the event loop without the fetch of the next event.
DrainEventNoFetch ==
    /\ pc = "drain"
    /\ Due(next_event, sample_id)
    /\ \/ /\ next_event.kind = "NoteOn"
          /\ NoteOnArm(next_event)
          /\ last_note_on' = << next_event.note >>
       \/ /\ next_event.kind = "NoteOff"
          /\ NoteOffArm(next_event)
          /\ UNCHANGED last_note_on
       \/ /\ next_event.kind = "PolyPressure"
          /\ PolyPressureArm(next_event)
          /\ UNCHANGED last_note_on
       \/ /\ next_event.kind \notin {"NoteOn", "NoteOff", "PolyPressure"}
          /\ UNCHANGED << noteVars, last_note_on >>
    /\ hist' = [handed |-> hist.handed,
                applied |-> hist.applied + 1,
                quiet |-> FALSE]
    /\ last' = Did("event", next_event)
    /\ UNCHANGED << sample_rate, oscillator, params, pc, channels, block_len,
                    sample_id, gain, buffer, budget, next_event, delivered >>

\* One iteration of the event loop: the due event is matched and the next
\* one is fetched from the context.
DrainEvent ==
    /\ pc = "drain"
    /\ Due(next_event, sample_id)
    /\ \/ /\ next_event.kind = "NoteOn"
          /\ NoteOnArm(next_event)
          /\ last_note_on' = << next_event.note >>
       \/ /\ next_event.kind = "NoteOff"
          /\ NoteOffArm(next_event)
          /\ UNCHANGED last_note_on
       \/ /\ next_event.kind = "PolyPressure"
          /\ PolyPressureArm(next_event)
          /\ UNCHANGED last_note_on
       \/ /\ next_event.kind \notin {"NoteOn", "NoteOff", "PolyPressure"}
          /\ UNCHANGED << noteVars, last_note_on >>
    /\ next_event' \in ContextNextEvent(next_event.timing, block_len, delivered)
    /\ delivered' = IF next_event' = NoEvent THEN delivered ELSE delivered + 1
    /\ hist' = [handed |-> IF next_event' = NoEvent THEN hist.handed
                           ELSE hist.handed + 1,
                applied |-> hist.applied + 1,
                quiet |-> FALSE]
    /\ last' = Did("event", next_event)
    /\ UNCHANGED << sample_rate, oscillator, params, pc, channels, block_len,
                    sample_id, gain, buffer, budget >>

\* The rest of the iteration with the envelope read before it is advanced.
RenderMidiSamplePreAdvance ==
    /\ pc = "drain"
    /\ ~Due(next_event, sample_id)
    /\ LET w == calculate_sample(oscillator, midi_note_freq)
           e == SmootherNext(midi_note_gain)
       IN  /\ oscillator' = w.osc
           /\ midi_note_gain' = e.s
           /\ buffer' = Append(buffer,
                               Row(Mul(w.out, midi_note_gain.current), gain))
    /\ sample_id' = sample_id + 1
    /\ pc' = "sample"
    /\ last' = Idle
    /\ UNCHANGED hist
    /\ UNCHANGED << sample_rate, midi_note_id, midi_note_freq, params, channels,
                    block_len, delivered, next_event, gain, budget,
                    last_note_on >>

\* The rest of the iteration in note-driven mode, once the event loop has
\* stopped: the oscillator is stepped at the note's frequency, the envelope
\* is advanced, and the row is written.
RenderMidiSample ==
    /\ pc = "drain"
    /\ ~Due(next_event, sample_id)
    /\ LET w == calculate_sample(oscillator, midi_note_freq)
           e == SmootherNext(midi_note_gain)
       IN  /\ oscillator' = w.osc
           /\ midi_note_gain' = e.s
           /\ buffer' = Append(buffer, Row(Mul(w.out, e.out), gain))
    /\ sample_id' = sample_id + 1
    /\ pc' = "sample"
    /\ last' = Idle
    /\ UNCHANGED hist
    /\ UNCHANGED << sample_rate, midi_note_id, midi_note_freq, params, channels,
                    block_len, delivered, next_event, gain, budget,
                    last_note_on >>

\* Plugin::process, exit: every sample of the buffer was rendered.
ProcessEnd ==
    /\ pc = "sample"
    /\ sample_id = block_len
    /\ pc' = "idle"
    /\ last' = Idle
    /\ UNCHANGED hist
    /\ UNCHANGED << sample_rate, oscillator, noteVars, params, channels,
                    block_len, sample_id, delivered, next_event, gain, buffer,
                    budget, last_note_on >>

(***************************************************************************)
(* Specification of the pure function get_period                           *)
(***************************************************************************)
\* The state the other specifications work on, constructed and left alone.
OscillatorsAtRest ==
    /\ sine = SimpleNew(1)
    /\ square = SimpleNew(1)
    /\ osc_out = NoOutput("sine")
    /\ calls = 0

EquationAtRest ==
    /\ eq = DefaultEquation
    /\ eq_period = << >>

EqInit ==
    /\ eq \in Equations
    /\ eq_period = << >>

\* One call of ParametricEquation::get_period on eq.
GetPeriod ==
    /\ eq_period = << >>
    /\ eq_period' = << get_period(eq) >>
    /\ UNCHANGED eq

(***************************************************************************)
(* Specification of the stand-alone oscillators                            *)
(***************************************************************************)
SineSetSampleRate ==
    \E sr \in OscSampleRates :
        /\ osc_out.variant = "sine"
        /\ sine' = set_sample_rate(sine, sr)
        /\ UNCHANGED << square, oscillator, osc_out, calls >>

SineSetFrequency ==
    \E f \in OscFrequencies :
        /\ osc_out.variant = "sine"
        /\ sine' = set_frequency(sine, f)
        /\ UNCHANGED << square, oscillator, osc_out, calls >>

SineSample ==
    /\ osc_out.variant = "sine"
    /\ calls < MaxCalls
    /\ LET r == SineSampleOf(sine)
       IN  /\ sine' = r.osc
           /\ osc_out' = [osc_out EXCEPT !.out = r.out]
    /\ calls' = calls + 1
    /\ UNCHANGED << square, oscillator >>

SquareSetSampleRate ==
    \E sr \in OscSampleRates :
        /\ osc_out.variant = "square"
        /\ square' = set_sample_rate(square, sr)
        /\ UNCHANGED << sine, oscillator, osc_out, calls >>

SquareSetFrequency ==
    \E f \in OscFrequencies :
        /\ osc_out.variant = "square"
        /\ square' = set_frequency(square, f)
        /\ UNCHANGED << sine, oscillator, osc_out, calls >>

SquareSample ==
    /\ osc_out.variant = "square"
    /\ calls < MaxCalls
    /\ LET r == SquareSampleOf(square)
       IN  /\ square' = r.osc
           /\ osc_out' = [osc_out EXCEPT !.out = r.out]
    /\ calls' = calls + 1
    /\ UNCHANGED << sine, oscillator >>

ParametricSetSampleRate ==
    \E sr \in OscSampleRates :
        /\ osc_out.variant = "parametric"
        /\ oscillator' = set_sample_rate(oscillator, sr)
        /\ UNCHANGED << sine, square, osc_out, calls >>

ParametricSetFrequency ==
    \E f \in OscFrequencies :
        /\ osc_out.variant = "parametric"
        /\ oscillator' = set_frequency(oscillator, f)
        /\ UNCHANGED << sine, square, osc_out, calls >>

ParametricSetEquation ==
    \E e \in Shapes :
        /\ osc_out.variant = "parametric"
        /\ oscillator' = set_equation(oscillator, e)
        /\ UNCHANGED << sine, square, osc_out, calls >>

ParametricSample ==
    /\ osc_out.variant = "parametric"
    /\ calls < MaxCalls
    /\ LET r == ParametricSampleOf(oscillator)
       IN  /\ oscillator' = r.osc
           /\ osc_out' = [osc_out EXCEPT !.out = r.out]
    /\ calls' = calls + 1
    /\ UNCHANGED << sine, square >>

(***************************************************************************)
(* The specifications of the plugin, the oscillators and get_period        *)
(***************************************************************************)
\* The plugin: construction, then the host's calls.  The gain and frequency
\* parameters keep their default values in this specification.
Init ==
    /\ PluginInit
    /\ OscillatorsAtRest
    /\ EquationAtRest

Next ==
    \/ (Initialize /\ UNCHANGED << eqVars, oscVars, ramp, host_notes >>)
    \/ (Reset /\ UNCHANGED << eqVars, oscVars, ramp, host_notes >>)
    \/ (SetUseMidi /\ UNCHANGED << eqVars, oscVars, ramp, host_notes >>)
    \/ (SetShape /\ UNCHANGED << eqVars, oscVars, ramp, host_notes >>)
    \/ (ProcessBegin /\ UNCHANGED << eqVars, oscVars, ramp, host_notes >>)
    \/ (RenderParamSample /\ UNCHANGED << eqVars, oscVars, ramp, host_notes >>)
    \/ (BeginMidiSample /\ UNCHANGED << eqVars, oscVars, ramp, host_notes >>)
    \/ (DrainEvent /\ UNCHANGED << eqVars, oscVars, ramp, host_notes >>)
    \/ (RenderMidiSample /\ UNCHANGED << eqVars, oscVars, ramp, host_notes >>)
    \/ (ProcessEnd /\ UNCHANGED << eqVars, oscVars, ramp, host_notes >>)

Spec == Init /\ [][Next]_vars

\* The oscillators on their own: any construction, then any calls.
OscInit ==
    /\ \E sr \in OscSampleRates :
        /\ sine = SimpleNew(sr)
        /\ square = SimpleNew(sr)
        /\ \E e \in Shapes : oscillator = ParametricNew(sr, e)
    /\ \E v \in Variants : osc_out = NoOutput(v)
    /\ calls = 0
    /\ EquationAtRest
    /\ sample_rate = PlaceholderRate
    /\ midi_note_id = 0
    /\ midi_note_freq = Unit
    /\ midi_note_gain = SmootherNew
    /\ params = DefaultParams
    /\ pc = "idle"
    /\ channels = DefaultChannels
    /\ block_len = 0
    /\ sample_id = 0
    /\ delivered = 0
    /\ next_event = NoEvent
    /\ gain = 0
    /\ buffer = << >>
    /\ last = Idle
    /\ last_note_on = << >>
    /\ budget = 0
    /\ hist = Quiet
    /\ ramp = NoRamp
    /\ host_notes = Notes

OscNext ==
    \/ (SineSetSampleRate /\ UNCHANGED << eqVars, pluginVars >>)
    \/ (SineSetFrequency /\ UNCHANGED << eqVars, pluginVars >>)
    \/ (SineSample /\ UNCHANGED << eqVars, pluginVars >>)
    \/ (SquareSetSampleRate /\ UNCHANGED << eqVars, pluginVars >>)
    \/ (SquareSetFrequency /\ UNCHANGED << eqVars, pluginVars >>)
    \/ (SquareSample /\ UNCHANGED << eqVars, pluginVars >>)
    \/ (ParametricSetSampleRate /\ UNCHANGED << eqVars, pluginVars >>)
    \/ (ParametricSetFrequency /\ UNCHANGED << eqVars, pluginVars >>)
    \/ (ParametricSetEquation /\ UNCHANGED << eqVars, pluginVars >>)
    \/ (ParametricSample /\ UNCHANGED << eqVars, pluginVars >>)

SpecOsc == OscInit /\ [][OscNext]_vars

\* The pure function get_period on every equation of the bounded domain.
EqSpecInit ==
    /\ EqInit
    /\ OscillatorsAtRest
    /\ PluginInit

EqNext == GetPeriod /\ UNCHANGED << oscVars, pluginVars, oscillator >>

SpecEq == EqSpecInit /\ [][EqNext]_vars

\* The plugin between the host's set-up and its tear-down: the host has chosen
\* a layout and parameter values and has called initialize; from then on it
\* automates the gain and the frequency, resets the stream and renders.
AudioIoLayouts == {DefaultChannels, 1}

\* The host plays one key while it automates the parameters.
RenderNotes == {60}

RenderInit ==
    /\ \E sr \in HostSampleRates :
        /\ sample_rate = sr
        /\ oscillator =
              set_sample_rate(ParametricNew(PlaceholderRate, DefaultEquation), sr)
    /\ channels \in AudioIoLayouts
    /\ \E g \in GainChoices, f \in FrequencyChoices, m \in BOOLEAN :
        params = [gain |-> g, frequency |-> f, use_midi |-> m,
                  shape |-> DefaultEquation,
                  gain_smoothed |-> SmootherReset(SmootherNew, g),
                  frequency_smoothed |-> SmootherReset(SmootherNew, f)]
    /\ midi_note_id = 0
    /\ midi_note_freq = Unit
    /\ midi_note_gain = SmootherNew
    /\ pc = "idle"
    /\ block_len = 0
    /\ sample_id = 0
    /\ delivered = 0
    /\ next_event = NoEvent
    /\ gain = 0
    /\ buffer = << >>
    /\ last = Idle
    /\ last_note_on = << >>
    /\ budget = 0
    /\ hist = Quiet
    /\ ramp = NoRamp
    /\ host_notes = RenderNotes
    /\ OscillatorsAtRest
    /\ EquationAtRest

RenderNext ==
    \/ (SetGain /\ UNCHANGED << eqVars, oscVars, ramp, host_notes >>)
    \/ (SetFrequency /\ UNCHANGED << eqVars, oscVars, ramp, host_notes >>)
    \/ (Reset /\ UNCHANGED << eqVars, oscVars, ramp, host_notes >>)
    \/ (ProcessBegin /\ UNCHANGED << eqVars, oscVars, ramp, host_notes >>)
    \/ (RenderParamSample /\ UNCHANGED << eqVars, oscVars, ramp, host_notes >>)
    \/ (BeginMidiSample /\ UNCHANGED << eqVars, oscVars, ramp, host_notes >>)
    \/ (DrainEvent /\ UNCHANGED << eqVars, oscVars, ramp, host_notes >>)
    \/ (RenderMidiSample /\ UNCHANGED << eqVars, oscVars, ramp, host_notes >>)
    \/ (ProcessEnd /\ UNCHANGED << eqVars, oscVars, ramp, host_notes >>)

SpecRender == RenderInit /\ [][RenderNext]_vars

\* The plugin's life in a host that reconfigures the audio engine: after
\* construction the host calls initialize (again whenever it changes the
\* sample rate), reset and process in any order, and plays one key.
LifeSampleRates == {400, 800}

LifeInit ==
    /\ sample_rate = PlaceholderRate
    /\ oscillator = ParametricNew(PlaceholderRate, DefaultEquation)
    /\ midi_note_id = 0
    /\ midi_note_freq = Unit
    /\ midi_note_gain = SmootherNew
    /\ params = DefaultParams
    /\ pc = "idle"
    /\ channels = DefaultChannels
    /\ block_len = 0
    /\ sample_id = 0
    /\ delivered = 0
    /\ next_event = NoEvent
    /\ gain = 0
    /\ buffer = << >>
    /\ last = Idle
    /\ last_note_on = << >>
    /\ budget = 0
    /\ hist = Quiet
    /\ ramp = NoRamp
    /\ host_notes = RenderNotes
    /\ OscillatorsAtRest
    /\ EquationAtRest

LifeNext ==
    \/ (InitializeAt(LifeSampleRates) /\ UNCHANGED << eqVars, oscVars, ramp, host_notes >>)
    \/ (Reset /\ UNCHANGED << eqVars, oscVars, ramp, host_notes >>)
    \/ (SetUseMidi /\ UNCHANGED << eqVars, oscVars, ramp, host_notes >>)
    \/ (SetShape /\ UNCHANGED << eqVars, oscVars, ramp, host_notes >>)
    \/ (ProcessBegin /\ UNCHANGED << eqVars, oscVars, ramp, host_notes >>)
    \/ (RenderParamSample /\ UNCHANGED << eqVars, oscVars, ramp, host_notes >>)
    \/ (BeginMidiSample /\ UNCHANGED << eqVars, oscVars, ramp, host_notes >>)
    \/ (DrainEvent /\ UNCHANGED << eqVars, oscVars, ramp, host_notes >>)
    \/ (RenderMidiSample /\ UNCHANGED << eqVars, oscVars, ramp, host_notes >>)
    \/ (ProcessEnd /\ UNCHANGED << eqVars, oscVars, ramp, host_notes >>)

SpecLife == LifeInit /\ [][LifeNext]_vars

\* A process() call that has started runs on: the audio thread executes the
\* loops of process() without suspension, so no step of process() stays
\* possible for ever without being taken (weak fairness of each step).  For
\* the two steps that compute a sample the enabling condition is written out:
\* it is the guard of the action.
restVars == << eqVars, oscVars, ramp, host_notes >>

ParamSampleDue == pc = "sample" /\ sample_id < block_len /\ ~params.use_midi
MidiSampleDue  == pc = "drain" /\ ~Due(next_event, sample_id)

ProcessRuns ==
    /\ WF_vars(BeginMidiSample /\ UNCHANGED restVars)
    /\ WF_vars(DrainEvent /\ UNCHANGED restVars)
    /\ WF_vars(ProcessEnd /\ UNCHANGED restVars)
    /\ ([]<>(~ParamSampleDue)
          \/ []<><< RenderParamSample /\ UNCHANGED restVars >>_vars)
    /\ ([]<>(~MidiSampleDue)
          \/ []<><< RenderMidiSample /\ UNCHANGED restVars >>_vars)

SpecRenderFair == SpecRender /\ ProcessRuns

(***************************************************************************)
(* Specification of the note-gain envelope on its own: the calls the       *)
(* plugin makes on midi_note_gain, at the plugin's sample rate.            *)
(***************************************************************************)
\* Bounds of the model.
MaxRamp    == 11     \* next() calls after one set_target
MaxTargets == 2      \* set_target calls

\* Sample rates with 0, 2, 5 and 10 steps in 5 ms, and envelope levels.
EnvSampleRates == {PlaceholderRate, 400, 1000, 2000}
EnvLevels      == {0, 5000, 8000, Unit}

\* self.midi_note_gain.set_target(self.sample_rate, level) with the 3 ms of
\* the gain parameter's smoother.
EnvSetTargetGainMs ==
    /\ ramp.sets < MaxTargets
    /\ \E level \in EnvLevels :
        /\ midi_note_gain' =
              SmootherSetTarget(midi_note_gain, sample_rate, GainMs, level)
        /\ ramp' = [from |-> midi_note_gain.current, target |-> level,
                    steps |-> NumSteps(sample_rate, NoteGainMs), outs |-> << >>,
                    sets |-> ramp.sets + 1]

\* self.midi_note_gain.set_target(self.sample_rate, level)
EnvSetTarget ==
    /\ ramp.sets < MaxTargets
    /\ \E level \in EnvLevels :
        /\ midi_note_gain' =
              SmootherSetTarget(midi_note_gain, sample_rate, NoteGainMs, level)
        /\ ramp' = [from |-> midi_note_gain.current, target |-> level,
                    steps |-> NumSteps(sample_rate, NoteGainMs), outs |-> << >>,
                    sets |-> ramp.sets + 1]

\* self.midi_note_gain.next()
EnvNext ==
    /\ Len(ramp.outs) < MaxRamp
    /\ LET e == SmootherNext(midi_note_gain)
       IN  /\ midi_note_gain' = e.s
           /\ ramp' = [ramp EXCEPT !.outs = Append(@, e.out)]

\* self.midi_note_gain.reset(0.0)
EnvReset ==
    /\ midi_note_gain' = SmootherReset(midi_note_gain, 0)
    /\ ramp' = [NoRamp EXCEPT !.sets = ramp.sets]

EnvInit ==
    /\ sample_rate \in EnvSampleRates
    /\ oscillator = ParametricNew(PlaceholderRate, DefaultEquation)
    /\ midi_note_id = 0
    /\ midi_note_freq = Unit
    /\ midi_note_gain = SmootherNew
    /\ params = DefaultParams
    /\ pc = "idle"
    /\ channels = DefaultChannels
    /\ block_len = 0
    /\ sample_id = 0
    /\ delivered = 0
    /\ next_event = NoEvent
    /\ gain = 0
    /\ buffer = << >>
    /\ last = Idle
    /\ last_note_on = << >>
    /\ budget = 0
    /\ hist = Quiet
    /\ ramp = NoRamp
    /\ host_notes = Notes
    /\ OscillatorsAtRest
    /\ EquationAtRest

envRest == << eqVars, oscVars, sample_rate, oscillator, midi_note_id,
              midi_note_freq, params, pc, channels, block_len, sample_id,
              delivered, next_event, gain, buffer, last, last_note_on, budget,
              hist, host_notes >>

EnvNextStep ==
    \/ (EnvSetTarget /\ UNCHANGED envRest)
    \/ (EnvNext /\ UNCHANGED envRest)
    \/ (EnvReset /\ UNCHANGED envRest)

SpecEnv == EnvInit /\ [][EnvNextStep]_vars

(***************************************************************************)
(* Properties                                                              *)
(***************************************************************************)
\* The event loop is about to match the event e: it is the pending event,
\* and it is due at the sample being rendered.
Matching(kind) ==
    /\ pc = "drain"
    /\ Due(next_event, sample_id)
    /\ next_event.kind = kind

NoteStateUnchanged ==
    /\ midi_note_id' = midi_note_id
    /\ midi_note_freq' = midi_note_freq

\* C1 -- Stale release guard: in note-driven mode a NoteOff(n) with n
\* different from the current midi_note_id leaves the note-gain envelope
\* (its target included), midi_note_id and midi_note_freq unchanged.
C1_StaleNoteOffIgnored ==
    [][ (Matching("NoteOff") /\ next_event.note # midi_note_id)
          => (midi_note_gain' = midi_note_gain /\ NoteStateUnchanged) ]_vars

\* NoteOn(60, 0.8) then NoteOff(61): the target is still 0.8.
C1_Witness ==
    /\ last.op = "event"
    /\ last.ev.kind = "NoteOff" /\ last.ev.note = 61
    /\ last.id = 60 /\ last.target = 8000
    /\ midi_note_id = 60 /\ midi_note_gain.target = 8000

\* C2 -- Monophonic last-note priority: every NoteOn(note, velocity) matched
\* in note-driven mode, whatever the state before it, sets midi_note_id to
\* note, midi_note_freq to the frequency of note and the envelope target to
\* velocity; and in every state the active note id is the note of the most
\* recently processed NoteOn (since construction or reset).
C2_LastNotePriority ==
    /\ [][ Matching("NoteOn")
             => /\ midi_note_id' = next_event.note
                /\ midi_note_freq' = midi_note_to_freq(next_event.note)
                /\ midi_note_gain'.target = next_event.value ]_vars
    /\ [](last_note_on # << >> => midi_note_id = last_note_on[1])

\* A NoteOn(60) that replaced the sounding note 61.
C2_Witness ==
    /\ last.op = "event"
    /\ last.ev.kind = "NoteOn" /\ last.ev.note = 60
    /\ last.id = 61 /\ last.target = 8000
    /\ midi_note_id = 60 /\ midi_note_freq = midi_note_to_freq(60)
    /\ midi_note_gain.target = 8000

\* C3 -- Matching release: a NoteOff(n) with n equal to the current
\* midi_note_id sets the envelope target to 0.0 and changes neither
\* midi_note_id nor midi_note_freq.
C3_MatchingRelease ==
    [][ (Matching("NoteOff") /\ next_event.note = midi_note_id)
          => (midi_note_gain'.target = 0 /\ NoteStateUnchanged) ]_vars

\* NoteOn(60, 0.8) then NoteOff(60): target 0.0, the note id still 60.
C3_Witness ==
    /\ last.op = "event"
    /\ last.ev.kind = "NoteOff" /\ last.ev.note = 60
    /\ last.id = 60 /\ last.target = 8000
    /\ midi_note_id = 60 /\ midi_note_freq = midi_note_to_freq(60)
    /\ midi_note_gain.target = 0

\* C4 -- Pressure re-articulation: a Pressure(n, p) sets the envelope target
\* to p when n equals the current midi_note_id, without changing midi_note_id
\* or midi_note_freq; when n differs it changes nothing.
C4_Pressure ==
    [][ Matching("PolyPressure")
          => /\ NoteStateUnchanged
             /\ next_event.note = midi_note_id
                   => midi_note_gain'.target = next_event.value
             /\ next_event.note # midi_note_id
                   => midi_note_gain' = midi_note_gain ]_vars

\* NoteOn(60, 0.8) then Pressure(60, 0.5): the target is 0.5.
C4_Witness ==
    /\ last.op = "event"
    /\ last.ev.kind = "PolyPressure" /\ last.ev.note = 60
    /\ last.id = 60 /\ last.target = 8000
    /\ midi_note_id = 60 /\ midi_note_gain.target = 5000

\* C5 -- Unexpected ordering: after construction or reset and before any
\* NoteOn, every NoteOff(n) and every Pressure(n, p), for every n, is a no-op:
\* the envelope target stays 0.0 and the note state stays (0, 1.0).
C5_NoOpBeforeNoteOn ==
    [][ (last_note_on = << >>
         /\ (Matching("NoteOff") \/ Matching("PolyPressure")))
          => /\ midi_note_gain'.target = 0
             /\ midi_note_id' = 0
             /\ midi_note_freq' = Unit ]_vars

\* C6 -- Sample-accurate deferral: an event with sample offset t is applied
\* only while a sample index >= t is being rendered, that is after the rows
\* of all samples with index < t have been written.
C6_NeverEarly ==
    last.op = "event"
        => (last.ev.timing <= last.sample /\ Len(buffer) >= last.ev.timing)

\* An event with offset 1 was deferred past sample 0 and applied at sample 1.
C6_Witness ==
    /\ last.op = "event"
    /\ last.ev.timing = 1
    /\ last.sample = 1
    /\ Len(buffer) = 1

\* C7 -- Phase range: after every call to sample() the stored phase lies in
\* the half-open range of the variant, [0, 1) for sine and square and
\* [0, period) for the parametric oscillator.
C7_PhaseInRange ==
    calls > 0 =>
        /\ osc_out.variant = "sine" => (0 <= sine.phase /\ sine.phase < Unit)
        /\ osc_out.variant = "square"
              => (0 <= square.phase /\ square.phase < Unit)
        /\ osc_out.variant = "parametric"
              => (0 <= oscillator.phase
                  /\ oscillator.phase < oscillator.period * Unit)

\* C8 -- Closed-form period: get_period returns 2*pi / gcd(gcd(a,b), gcd(c,d)).
C8_ClosedFormPeriod ==
    eq_period # << >> => eq_period[1] * Unit = ClosedFormPeriod(eq)

\* C9 -- After set_equation(e), called at the start of every block, the
\* period stored in the oscillator is the period of e.
C9_PeriodFollowsEquation ==
    pc # "idle" => oscillator.period = get_period(oscillator.equation)

\* C10 -- Square output: sample() returns exactly +1.0 when the phase it
\* leaves behind is < 0.5 and exactly -1.0 otherwise, whatever calls came
\* before.
C10_SquareOutput ==
    (osc_out.variant = "square" /\ calls > 0)
        => /\ osc_out.out \in {Unit, -Unit}
           /\ osc_out.out = Unit <=> square.phase < Unit \div 2

\* The second sample at a quarter-cycle step: phase exactly 0.5, output -1.0.
C10_Witness ==
    /\ osc_out.variant = "square"
    /\ calls = 2
    /\ square.phase = Unit \div 2
    /\ osc_out.out = -Unit

\* A step of the sample loop that writes the row of one sample index, and the
\* row it writes.
RowWritten == Len(buffer') = Len(buffer) + 1
NewRow == buffer'[Len(buffer')]

\* The oscillator step of the sample being rendered, in the mode in use.
StepOfSample ==
    IF pc = "drain"
    THEN calculate_sample(oscillator, midi_note_freq)
    ELSE calculate_sample(oscillator, SmootherNext(params.frequency_smoothed).out)

\* The waveform sample of the sample being rendered: the oscillator's value,
\* in note-driven mode multiplied by the envelope's next value.
WaveOfSample ==
    IF pc = "drain"
    THEN Mul(StepOfSample.out, SmootherNext(midi_note_gain).out)
    ELSE StepOfSample.out

\* C11 -- Mono source duplicated to all channels: the row of every rendered
\* sample index has one entry per channel, every entry is the waveform sample
\* of that index times the linear gain of that index's smoothed dB gain, and
\* the oscillator is stepped once for the row, and by no other step of
\* process().
C11_MonoDuplicated ==
    /\ [][ RowWritten
             => /\ DOMAIN NewRow = 1 .. channels
                /\ \A ch \in 1 .. channels :
                      NewRow[ch] = Mul(WaveOfSample, db_to_gain_fast(gain'))
                /\ oscillator' = StepOfSample.osc ]_vars
    /\ [][ (pc # "idle" /\ ~RowWritten) => oscillator' = oscillator ]_vars

\* A stereo block of two samples at 0 dB: both channels of the second row
\* carry the same non-zero value.
C11_Witness ==
    /\ pc = "idle"
    /\ channels = 2
    /\ Len(buffer) = 2
    /\ gain = 0
    /\ buffer[2][1] # 0
    /\ buffer[2][2] = buffer[2][1]

\* C12 -- Silence after reset: from reset() (as from construction) until an
\* event is matched, midi_note_id = 0, midi_note_freq = 1.0 and the envelope
\* has current = target = 0.0; and every row rendered in note-driven mode in
\* that time is 0 in every channel, whatever the gain.
C12_SilenceAfterReset ==
    /\ [](hist.quiet
            => /\ midi_note_id = 0
               /\ midi_note_freq = Unit
               /\ midi_note_gain.current = 0
               /\ midi_note_gain.target = 0)
    /\ [][ (hist.quiet /\ pc = "drain" /\ RowWritten)
             => \A ch \in 1 .. channels : NewRow[ch] = 0 ]_vars

\* Events were matched in an earlier block, the stream was reset, and the
\* first sample of an event-free block was rendered at 0 dB: it is 0.
C12_Witness ==
    /\ pc = "sample"
    /\ sample_id = 1
    /\ params.use_midi
    /\ hist.quiet
    /\ hist.handed = 0
    /\ delivered > 0
    /\ gain = 0
    /\ Len(buffer) = 1
    /\ buffer[1][1] = 0

\* The value the envelope had before its i-th next() of the ramp.
RampBefore(i) == IF i = 1 THEN ramp.from ELSE ramp.outs[i - 1]

\* v lies between a and b, the ends included.
Between(a, v, b) == (a <= v /\ v <= b) \/ (b <= v /\ v <= a)

\* C13 -- Envelope ramp without overshoot: after set_target(rate, target)
\* and with no retargeting, every next() returns a value between the one
\* before it and target (so the values move monotonically toward target and
\* never pass it), the NumSteps(rate, 5 ms)-th and every later one returns
\* target itself, and no earlier one does unless the ramp started there.
C13_RampNoOvershoot ==
    (ramp.sets > 0) =>
        \A i \in 1 .. Len(ramp.outs) :
            /\ Between(RampBefore(i), ramp.outs[i], ramp.target)
            /\ i >= ramp.steps => ramp.outs[i] = ramp.target
            /\ (i < ramp.steps /\ ramp.from # ramp.target)
                  => ramp.outs[i] # ramp.target

\* The ramp from 0.0 to 1.0 at 1000 Hz: 0.2, 0.4, 0.6, 0.8, 1.0 and then
\* 1.0 again.
C13_Witness ==
    /\ sample_rate = 1000
    /\ ramp.from = 0 /\ ramp.target = Unit /\ ramp.steps = 5
    /\ ramp.outs = << 2000, 4000, 6000, 8000, Unit, Unit >>

\* C14 as stated -- Exclusive drain bound: the events matched while sample s
\* is rendered are the pending ones with offset strictly less than s; an
\* event with offset s is not matched before the row of s is computed.
C14_ExclusiveDrain ==
    last.op = "event" => last.ev.timing < last.sample

\* C14 as amended -- Inclusive drain bound: the events matched while sample s
\* is rendered are exactly the pending ones with offset <= s: every event
\* matched has an offset <= s, and when the row of s is computed no event
\* with an offset <= s is pending.
C14_InclusiveDrain ==
    /\ [](last.op = "event" => last.ev.timing <= last.sample)
    /\ [][ (pc = "drain" /\ RowWritten)
             => (next_event.kind = "None" \/ next_event.timing > sample_id) ]_vars

\* The first block, two samples, with a NoteOn at offset 1: the row of
\* sample 0 is silent and the row of sample 1 already sounds.
C14_Witness ==
    /\ pc = "sample"
    /\ budget = 2
    /\ sample_id = 2
    /\ hist.applied = 1
    /\ last_note_on # << >>
    /\ buffer[1][1] = 0
    /\ buffer[2][1] # 0

\* C15 -- Mode exclusivity: while a block is rendered in parameter mode no
\* event is consumed, the note state and the envelope are left alone (the
\* envelope is not advanced), and each row is the oscillator's sample at the
\* frequency smoother's next value times the linear gain, with no envelope
\* factor; while a block is rendered in note-driven mode the frequency
\* smoother is left alone.
C15_ModeExclusivity ==
    /\ [][ (pc # "idle" /\ ~params.use_midi)
             => /\ next_event' = next_event
                /\ delivered' = delivered
                /\ hist' = hist
                /\ midi_note_id' = midi_note_id
                /\ midi_note_freq' = midi_note_freq
                /\ midi_note_gain' = midi_note_gain ]_vars
    /\ [][ (pc # "idle" /\ ~params.use_midi /\ RowWritten)
             => \A ch \in 1 .. channels :
                  NewRow[ch] =
                    Mul(calculate_sample(oscillator,
                            SmootherNext(params.frequency_smoothed).out).out,
                        db_to_gain_fast(SmootherNext(params.gain_smoothed).out))
           ]_vars
    /\ [][ (pc # "idle" /\ params.use_midi)
             => params'.frequency_smoothed = params.frequency_smoothed ]_vars

\* Two samples rendered in parameter mode in the middle of a frequency ramp,
\* with a NoteOn of the host pending and untouched: the note state is idle
\* and the second row sounds.
C15_Witness ==
    /\ pc = "sample"
    /\ ~params.use_midi
    /\ sample_id = 2
    /\ params.frequency_smoothed.steps_left = 2
    /\ next_event.kind = "NoteOn"
    /\ hist.applied = 0
    /\ midi_note_id = 0
    /\ midi_note_gain = SmootherNew
    /\ buffer[2][1] # 0

\* C16 -- Per-sample step order: every iteration of the sample loop starts
\* by advancing the gain smoother once, and nothing else in the iteration
\* advances it; in note-driven mode the row is computed when no due event is
\* left, the oscillator is stepped at midi_note_freq as the events left it,
\* and the envelope factor is the value its next() returns then; so after a
\* NoteOn matched for sample s the row of s is computed at the note's
\* frequency and with the first step of the new ramp.
C16_StepOrder ==
    /\ [][ (pc = "sample" /\ sample_id < block_len)
             => /\ params'.gain_smoothed = SmootherNext(params.gain_smoothed).s
                /\ gain' = SmootherNext(params.gain_smoothed).out ]_vars
    /\ [][ pc = "drain"
             => (params'.gain_smoothed = params.gain_smoothed /\ gain' = gain)
           ]_vars
    /\ [][ (pc = "drain" /\ RowWritten)
             => /\ ~(next_event.kind # "None" /\ next_event.timing <= sample_id)
                /\ oscillator' = calculate_sample(oscillator, midi_note_freq).osc
                /\ midi_note_gain' = SmootherNext(midi_note_gain).s
                /\ \A ch \in 1 .. channels :
                      NewRow[ch] =
                        Mul(Mul(calculate_sample(oscillator, midi_note_freq).out,
                                SmootherNext(midi_note_gain).out),
                            db_to_gain_fast(gain)) ]_vars
    /\ [][ (pc = "drain" /\ RowWritten
            /\ last.op = "event" /\ last.ev.kind = "NoteOn")
             => /\ oscillator'.frequency = midi_note_to_freq(last.ev.note)
                /\ midi_note_gain'.steps_left =
                      NumSteps(sample_rate, NoteGainMs) - 1 ]_vars

\* A NoteOn(60, 0.8) at offset 0 of a block at 400 Hz: after the row of
\* sample 0 the oscillator runs at the frequency of note 60 and the envelope
\* has made the first of its two steps (0.4), and the row sounds.
C16_Witness ==
    /\ pc = "sample"
    /\ sample_id = 1
    /\ last_note_on = << 60 >>
    /\ hist.applied = 1
    /\ oscillator.frequency = midi_note_to_freq(60)
    /\ midi_note_gain.current = 4000
    /\ midi_note_gain.steps_left = 1
    /\ buffer[1][1] # 0

\* C17 -- set_equation frame: set_equation leaves phase, frequency and
\* sample_rate of the parametric oscillator unchanged, and so do
\* set_frequency and set_sample_rate leave the phase of every variant: a step
\* that is not a sample() call changes no phase, and a step that changes the
\* equation changes nothing else of the oscillator but the equation.
C17_SettersKeepPhase ==
    /\ [][ calls' = calls
             => /\ sine'.phase = sine.phase
                /\ square'.phase = square.phase
                /\ oscillator'.phase = oscillator.phase ]_vars
    /\ [][ oscillator'.equation # oscillator.equation
             => oscillator' = [oscillator EXCEPT !.equation = oscillator'.equation]
           ]_vars

\* An oscillator built for the shape with period 2, stepped four times by
\* 0.44 and given the default shape (period 1): the phase is still 1.76.
C17_Witness ==
    /\ osc_out.variant = "parametric"
    /\ calls = 4
    /\ oscillator.period = 2
    /\ oscillator.equation = DefaultEquation
    /\ oscillator.phase = 17600

\* The phase after one sample() call on an oscillator with phase `before`:
\* the increment is added, and the width is subtracted once if, and only if,
\* the sum exceeds it.
SteppedOnce(before, o, width) ==
    LET sum == before.phase + (before.frequency \div before.sample_rate)
    IN  /\ o.phase \in {sum, sum - width}
        /\ o.phase = sum - width <=> sum > width

\* C18 -- Oscillator step relation: every sample() call changes the phase by
\* the increment frequency / sample_rate minus zero or one range width (one
\* exactly when the sum exceeds the width), and returns the waveform at the
\* phase it leaves behind; the first call after construction therefore
\* returns the waveform at phase frequency / sample_rate.
C18_StepRelation ==
    [][ calls' = calls + 1
          => /\ osc_out.variant = "sine"
                  => /\ SteppedOnce(sine, sine', Unit)
                     /\ osc_out'.out = Sin(Mul(sine'.phase % Unit, TwoPiFix))
             /\ osc_out.variant = "square"
                  => /\ SteppedOnce(square, square', Unit)
                     /\ osc_out'.out =
                           IF square'.phase < Unit \div 2 THEN Unit ELSE -Unit
             /\ osc_out.variant = "parametric"
                  => /\ SteppedOnce(oscillator, oscillator',
                                    oscillator.period * Unit)
                     /\ LET p == get_position(oscillator.equation,
                                              oscillator'.phase)
                        IN  osc_out'.out
                              = Sqrt(p[1] * p[1] + p[2] * p[2]) - Unit ]_vars

\* The first sample() of a sine at 1 Hz and a rate of 4 Hz: the phase is
\* 0.25 and the value is sin(pi / 2), not sin(0).
C18_Witness ==
    /\ osc_out.variant = "sine"
    /\ calls = 1
    /\ sine.phase = Unit \div 4
    /\ osc_out.out > 9990

\* The number of events the host has handed out in this block and process()
\* has not matched yet: the one it holds, if any.
Pending == IF next_event.kind = "None" THEN 0 ELSE 1

\* C19 -- Render termination and event ordering: a process() call that has
\* started returns; it writes one row per sample index, block_len rows when
\* it returns; every event matched is the one handed out longest ago and not
\* yet matched (so none is matched twice and none out of the host's order,
\* which is by non-decreasing offset); and when a block rendered in
\* note-driven mode has rendered its last sample, every event handed out for
\* it has been matched.
C19_TerminatesInOrder ==
    /\ (pc # "idle") ~> (pc = "idle")
    /\ [](/\ pc # "idle" => (Len(buffer) = sample_id /\ sample_id <= block_len)
          /\ pc = "idle" => Len(buffer) = block_len)
    /\ [](hist.handed = hist.applied + Pending)
    /\ []((last.op = "event" /\ next_event.kind # "None")
            => last.ev.timing <= next_event.timing)
    /\ [][ hist'.applied > hist.applied
             => /\ pc = "drain"
                /\ hist'.applied = hist.applied + 1
                /\ last'.op = "event"
                /\ last'.ev = next_event ]_vars
    /\ []((pc = "sample" /\ sample_id = block_len /\ params.use_midi)
            => (hist.applied = hist.handed /\ Pending = 0))

\* A block of two samples rendered in note-driven mode has returned; the
\* host handed out two events for it and both were matched.
C19_Witness ==
    /\ pc = "idle"
    /\ params.use_midi
    /\ block_len = 2
    /\ Len(buffer) = 2
    /\ hist.handed = 2
    /\ hist.applied = 2

\* C20 -- Note frequency tracks note id: in every state either no NoteOn was
\* matched since construction or the last reset and the note state is
\* (0, 1.0), or midi_note_freq is the frequency of midi_note_id; and a step
\* that changes midi_note_id or midi_note_freq is the match of a NoteOn or a
\* reset (so no NoteOff, pressure, other event, initialize or sample does).
C20_FreqTracksId ==
    /\ [](\/ (last_note_on = << >> /\ midi_note_id = 0 /\ midi_note_freq = Unit)
          \/ (last_note_on # << >>
              /\ midi_note_freq = midi_note_to_freq(midi_note_id)))
    /\ [][ (midi_note_id' # midi_note_id \/ midi_note_freq' # midi_note_freq)
             => \/ Matching("NoteOn")
                \/ (pc = "idle" /\ last_note_on' = << >>
                    /\ midi_note_id' = 0 /\ midi_note_freq' = Unit) ]_vars

\* NoteOn(61), then a pressure event for the other key: the note state is
\* still 61 and its frequency.
C20_Witness ==
    /\ last.op = "event"
    /\ last.ev.kind = "PolyPressure" /\ last.ev.note = 60
    /\ last_note_on = << 61 >>
    /\ midi_note_id = 61
    /\ midi_note_freq = midi_note_to_freq(61)

\* C21 -- Sample-rate consistency: in every state the plugin's sample_rate
\* (the rate of the envelope's set_target) equals the oscillator's
\* sample_rate (the rate of the phase increment); and a step that changes
\* either is an initialize call, which leaves both at the host's rate and
\* touches neither the note state nor a process() call.
C21_SampleRateConsistent ==
    /\ [](sample_rate = oscillator.sample_rate)
    /\ [][ (sample_rate' # sample_rate
            \/ oscillator'.sample_rate # oscillator.sample_rate)
             => /\ pc = "idle" /\ pc' = "idle"
                /\ sample_rate' \in LifeSampleRates
                /\ oscillator' = [oscillator EXCEPT !.sample_rate = sample_rate']
                /\ UNCHANGED << midi_note_id, midi_note_freq, midi_note_gain >>
           ]_vars

\* A NoteOn was matched and one sample rendered at 400 Hz (the envelope's
\* step is 0.8 / 2), then the host initialized the plugin again at 800 Hz:
\* both rates are 800.
C21_Witness ==
    /\ pc = "idle"
    /\ sample_rate = 800
    /\ oscillator.sample_rate = 800
    /\ oscillator.phase # 0
    /\ midi_note_gain.step_size = 4000
    /\ midi_note_gain.current = 4000

====
